---------------------------- MODULE Spec2Model ----------------------------
(***************************************************************************)
(* A model of ndjson_to_csv.py: one pass over a newline-delimited JSON     *)
(* file that filters the parsed objects, projects the selected fields to   *)
(* CSV rows and rotates the output file after a configured number of rows. *)
(*                                                                         *)
(* Text is a sequence of one-character strings, so that lower-casing,      *)
(* substring search, number parsing and serialisation are computed.        *)
(* A number n is the pair (k, r) with n = 1000 * k + r and 0 <= r < 1000:  *)
(* the millisecond threshold 10_000_000_000 and millisecond timestamps do  *)
(* not fit TLC's 32-bit integers as one value.                             *)
(***************************************************************************)
EXTENDS Integers, Sequences, FiniteSets, TLC

VARIABLES
    cfg,              \* the parsed command line (args), fixed for the run
    input,            \* the lines of the input file
    pc,               \* position of main()
    fin,              \* the input stream: "unopened", "open", "closed"
    files,            \* every output file opened so far, in opening order
    out_file,         \* index in files of the file bound to out_file (0: unbound)
    writer,           \* index in files of the file the csv writer writes to
    rows_in_current,
    part_idx,         \* 0 stands for None
    total,
    kept,
    outcome,          \* what became of the line read last
    err               \* "none", "io" (environment / I/O error), "content" (uncaught
                      \* AttributeError / TypeError raised by a line's content)

vars == <<cfg, input, pc, fin, files, out_file, writer, rows_in_current,
          part_idx, total, kept, outcome, err>>

-----------------------------------------------------------------------------
(* Bounds of the model *)

\* longest input drawn from the small line alphabet (rotation scenarios)
MaxLines == 5
\* longest input drawn from the rich line alphabets (filter and encoder scenarios)
MaxRichLines == 1
\* largest --max-rows-per-file
MaxRowsPerFile == 2

-----------------------------------------------------------------------------
(* Text *)

UpperCase == <<"A","B","C","D","E","F","G","H","I","J","K","L","M",
               "N","O","P","Q","R","S","T","U","V","W","X","Y","Z">>
LowerCase == <<"a","b","c","d","e","f","g","h","i","j","k","l","m",
               "n","o","p","q","r","s","t","u","v","w","x","y","z">>
DigitChars == <<"0","1","2","3","4","5","6","7","8","9">>

LowerChar(c) ==
    IF \E i \in 1..26 : UpperCase[i] = c
    THEN LowerCase[CHOOSE i \in 1..26 : UpperCase[i] = c]
    ELSE c

\* str.lower()
Lower(s) == [i \in 1..Len(s) |-> LowerChar(s[i])]

\* the Python test  t in s  on strings
IsSubstr(t, s) ==
    \E i \in 0..(Len(s) - Len(t)) : SubSeq(s, i + 1, i + Len(t)) = t

IsDigit(c) == \E i \in 1..10 : DigitChars[i] = c
DigitVal(c) == (CHOOSE i \in 1..10 : DigitChars[i] = c) - 1

RECURSIVE Digits(_)
\* str(n) for a natural number n
Digits(n) ==
    IF n < 10 THEN <<DigitChars[n + 1]>>
    ELSE Digits(n \div 10) \o <<DigitChars[(n % 10) + 1]>>

RECURSIVE Pad(_, _)
\* n in decimal, zero-padded to w characters (strftime's %Y, %m, %d, %H, %M, %S)
Pad(n, w) ==
    LET d == Digits(n) IN IF Len(d) >= w THEN d ELSE <<"0">> \o Pad(n, w - 1)


-----------------------------------------------------------------------------
(* JSON values, as json.loads returns them *)

Null == [t |-> "null"]                          \* None
Bool(b) == [t |-> "bool", b |-> b]
Num(k, r) == [t |-> "num", k |-> k, r |-> r]      \* the int 1000 * k + r
NaN == [t |-> "nan"]                            \* float('nan'), the JSON literal NaN
Str(s) == [t |-> "str", s |-> s]
Arr(e) == [t |-> "arr", e |-> e]                  \* e: the elements
Obj(m) == [t |-> "obj", m |-> m]                  \* m: the <<key, value>> pairs, in order

\* dict.get(f, None): the value of the last pair with key f
Get(o, f) ==
    LET idx == {i \in 1..Len(o.m) : o.m[i][1] = f}
    IN  IF idx = {} THEN Null
        ELSE o.m[CHOOSE i \in idx : \A j \in idx : j <= i][2]

\* Python truthiness, as  x or ""  tests it
Truthy(v) ==
    CASE v.t = "null" -> FALSE
      [] v.t = "bool" -> v.b
      [] v.t = "num"  -> v.k # 0 \/ v.r # 0
      [] v.t = "nan"  -> TRUE
      [] v.t = "str"  -> Len(v.s) > 0
      [] v.t = "arr"  -> Len(v.e) > 0
      [] v.t = "obj"  -> Len(v.m) > 0

\* str(n) of the int 1000 * k + r
NumText(k, r) == IF k = 0 THEN Digits(r) ELSE Digits(k) \o Pad(r, 3)

RECURSIVE JoinComma(_)
\* ", ".join(parts)
JoinComma(parts) ==
    IF Len(parts) = 0 THEN <<>>
    ELSE IF Len(parts) = 1 THEN parts[1]
    ELSE parts[1] \o <<",", " ">> \o JoinComma(Tail(parts))

RECURSIVE JsonEscape(_)
\* the body of a JSON string literal (ensure_ascii=False): quote and backslash escaped
JsonEscape(s) ==
    IF Len(s) = 0 THEN <<>>
    ELSE (IF s[1] = "\"" \/ s[1] = "\\" THEN <<"\\", s[1]>> ELSE <<s[1]>>)
         \o JsonEscape(Tail(s))

RECURSIVE JsonDumps(_)
\* json.dumps(v, ensure_ascii=False)
JsonDumps(v) ==
    CASE v.t = "null" -> <<"n","u","l","l">>
      [] v.t = "bool" -> IF v.b THEN <<"t","r","u","e">> ELSE <<"f","a","l","s","e">>
      [] v.t = "num"  -> NumText(v.k, v.r)
      [] v.t = "nan"  -> <<"N","a","N">>
      [] v.t = "str"  -> <<"\"">> \o JsonEscape(v.s) \o <<"\"">>
      [] v.t = "arr"  ->
            <<"[">> \o JoinComma([i \in 1..Len(v.e) |-> JsonDumps(v.e[i])]) \o <<"]">>
      [] v.t = "obj"  ->
            <<"{">> \o JoinComma([i \in 1..Len(v.m) |->
                        <<"\"">> \o JsonEscape(v.m[i][1]) \o <<"\"", ":", " ">>
                        \o JsonDumps(v.m[i][2])]) \o <<"}">>

RECURSIVE PyRepr(_)
\* repr(v): how str() shows a value inside a list or a dict
PyRepr(v) ==
    CASE v.t = "null" -> <<"N","o","n","e">>
      [] v.t = "bool" -> IF v.b THEN <<"T","r","u","e">> ELSE <<"F","a","l","s","e">>
      [] v.t = "num"  -> NumText(v.k, v.r)
      [] v.t = "nan"  -> <<"n","a","n">>
      [] v.t = "str"  -> <<"'">> \o v.s \o <<"'">>
      [] v.t = "arr"  ->
            <<"[">> \o JoinComma([i \in 1..Len(v.e) |-> PyRepr(v.e[i])]) \o <<"]">>
      [] v.t = "obj"  ->
            <<"{">> \o JoinComma([i \in 1..Len(v.m) |->
                        <<"'">> \o v.m[i][1] \o <<"'", ":", " ">>
                        \o PyRepr(v.m[i][2])]) \o <<"}">>

\* str(v)
PyStr(v) == IF v.t = "str" THEN v.s ELSE PyRepr(v)

-----------------------------------------------------------------------------
(* float(v) *)

Fail == [ok |-> FALSE]
Float(k, r) == [ok |-> TRUE, nan |-> FALSE, k |-> k, r |-> r]
FloatNaN == [ok |-> TRUE, nan |-> TRUE]

RECURSIVE ParseDigits(_, _, _)
\* the value of a digit string, accumulated as (k, r)
ParseDigits(s, k, r) ==
    IF Len(s) = 0 THEN Float(k, r)
    ELSE LET x == 10 * r + DigitVal(s[1])
         IN  ParseDigits(Tail(s), 10 * k + (x \div 1000), x % 1000)

\* float(s) of a str: an unsigned digit string or "nan" in any case; every other
\* text of the model's alphabets raises ValueError
ParseFloat(s) ==
    IF Len(s) > 0 /\ \A i \in 1..Len(s) : IsDigit(s[i]) THEN ParseDigits(s, 0, 0)
    ELSE IF Lower(s) = <<"n","a","n">> THEN FloatNaN
    ELSE Fail

\* float(v): TypeError for None, list and dict, ValueError for a non-numeric str
ToFloat(v) ==
    CASE v.t = "num"  -> Float(v.k, v.r)
      [] v.t = "bool" -> Float(0, IF v.b THEN 1 ELSE 0)
      [] v.t = "nan"  -> FloatNaN
      [] v.t = "str"  -> ParseFloat(v.s)
      [] OTHER        -> Fail

\* a < b on floats, either of which may be NaN (every comparison with NaN is False)
FloatLt(a, b) ==
    /\ ~a.nan /\ ~b.nan
    /\ \/ a.k < b.k
       \/ a.k = b.k /\ a.r < b.r

-----------------------------------------------------------------------------
(* datetime.utcfromtimestamp(ts).strftime("%Y-%m-%dT%H:%M:%SZ") *)

\* ts > 10_000_000_000, in thousands
MsThresholdK == 10000000
\* the last second of year 9999 is 253402300799
MaxTimestampK == 253402300

\* the civil date of a day count since 1970-01-01
CivilFromDays(days) ==
    LET z   == days + 719468
        era == z \div 146097
        doe == z - era * 146097
        yoe == (doe - (doe \div 1460) + (doe \div 36524) - (doe \div 146096)) \div 365
        doy == doe - (365 * yoe + (yoe \div 4) - (yoe \div 100))
        mp  == (5 * doy + 2) \div 153
        d   == doy - ((153 * mp + 2) \div 5) + 1
        m   == IF mp < 10 THEN mp + 3 ELSE mp - 9
        y   == yoe + era * 400 + (IF m <= 2 THEN 1 ELSE 0)
    IN  <<y, m, d>>

\* the rendering of 1000 * k + r seconds since the epoch; 86400 * 5 = 432 * 1000
IsoOfSeconds(k, r) ==
    LET rest == (k % 432) * 1000 + r
        days == 5 * (k \div 432) + (rest \div 86400)
        sod  == rest % 86400
        ymd  == CivilFromDays(days)
    IN  Pad(ymd[1], 4) \o <<"-">> \o Pad(ymd[2], 2) \o <<"-">> \o Pad(ymd[3], 2)
        \o <<"T">> \o Pad(sod \div 3600, 2) \o <<":">> \o Pad((sod % 3600) \div 60, 2)
        \o <<":">> \o Pad(sod % 60, 2) \o <<"Z">>

\* lines 74-77: [ok |-> FALSE] when float() or utcfromtimestamp() raises, else the text
IsoCell(val) ==
    LET ts == ToFloat(val) IN
    IF ~ts.ok \/ ts.nan THEN [ok |-> FALSE]
    ELSE LET ms == ts.k > MsThresholdK \/ (ts.k = MsThresholdK /\ ts.r > 0)
             \* ts / 1000.0 leaves k seconds and a fraction that strftime drops
             k  == IF ms THEN ts.k \div 1000 ELSE ts.k
             r  == IF ms THEN ts.k % 1000 ELSE ts.r
         IN  IF k > MaxTimestampK \/ (k = MaxTimestampK /\ r > 799)
             THEN [ok |-> FALSE]
             ELSE [ok |-> TRUE, s |-> IsoOfSeconds(k, r)]

-----------------------------------------------------------------------------
(* write_csv_row: the cells of one row *)

\* lines 65-85, one field
EncodeCell(f, obj, datetime_fields) ==
    LET val == Get(obj, f) IN
    IF val.t = "null" THEN <<>>
    ELSE IF f \in datetime_fields
         THEN LET iso == IsoCell(val) IN IF iso.ok THEN iso.s ELSE PyStr(val)
         ELSE IF val.t \in {"obj", "arr"} THEN JsonDumps(val) ELSE PyStr(val)

\* lines 63-86: the row handed to writer.writerow
EncodeRow(fields, obj, datetime_fields) ==
    [i \in 1..Len(fields) |-> EncodeCell(fields[i], obj, datetime_fields)]

-----------------------------------------------------------------------------
(* The record filter, lines 155-172 *)

K_id      == <<"i","d">>
K_body    == <<"b","o","d","y">>
K_title   == <<"t","i","t","l","e">>
K_created == <<"c","r","e","a","t","e","d","_","u","t","c">>
K_v       == <<"v">>

\* --min-utc / --max-utc: None, or a float
Unset == [set |-> FALSE]
Bound(k, r) == [set |-> TRUE, nan |-> FALSE, k |-> k, r |-> r]

\* line 111: contains = [s.lower() for s in args.contains]
contains == [i \in 1..Len(cfg.args_contains) |-> Lower(cfg.args_contains[i])]

\* x or "" (line 157)
OrEmpty(v) == IF Truthy(v) THEN v ELSE Str(<<>>)

\* lines 156-159: "pass", "rejected", or "crash" when obj has no .get
\* (AttributeError) or a truthy body / title is not a str (TypeError on +)
ContainsStage(obj) ==
    IF Len(contains) = 0 THEN "pass"
    ELSE IF obj.t # "obj" THEN "crash"
    ELSE LET b  == OrEmpty(Get(obj, K_body))
             ti == OrEmpty(Get(obj, K_title))
         IN  IF b.t # "str" \/ ti.t # "str" THEN "crash"
             ELSE IF \E i \in 1..Len(contains) :
                        IsSubstr(contains[i], Lower(b.s \o <<" ">> \o ti.s))
                  THEN "pass"
                  ELSE "rejected"

\* lines 161-172: float() failures are caught (ts = None), obj.get is not guarded
BoundsStage(obj) ==
    IF ~cfg.min_utc.set /\ ~cfg.max_utc.set THEN "pass"
    ELSE IF obj.t # "obj" THEN "crash"
    ELSE LET ts == ToFloat(Get(obj, cfg.created_field))
         IN  IF ~ts.ok THEN "rejected"
             ELSE IF cfg.min_utc.set /\ FloatLt(ts, cfg.min_utc) THEN "rejected"
             ELSE IF cfg.max_utc.set /\ FloatLt(cfg.max_utc, ts) THEN "rejected"
             ELSE "pass"

\* lines 155-175 for a parsed value: "rejected", "crash" or "keep"; write_csv_row
\* calls obj.get for the first field (--fields has nargs="+": never empty)
FilterOutcome(obj) ==
    IF ContainsStage(obj) # "pass" THEN ContainsStage(obj)
    ELSE IF BoundsStage(obj) # "pass" THEN BoundsStage(obj)
    ELSE IF obj.t # "obj" THEN "crash"
    ELSE "keep"

-----------------------------------------------------------------------------
(* Input lines *)

Blank == [kind |-> "blank"]                   \* not line.strip()
Bad == [kind |-> "bad"]                       \* json.loads raises JSONDecodeError
Json(v) == [kind |-> "json", v |-> v]         \* json.loads returns v

\* lines 147-175: what the loop body does with a line
LineOutcome(l) ==
    CASE l.kind = "blank" -> "blank"
      [] l.kind = "bad"   -> "bad"
      [] l.kind = "json"  -> FilterOutcome(l.v)

-----------------------------------------------------------------------------
(* Output files *)

\* a row of a file, with the call that wrote it: w.writerow(fields) of
\* make_writer (line 133) or writer.writerow(row) of write_csv_row (line 86)
HeaderRow(cells) == [hdr |-> TRUE, cells |-> cells]
DataRow(cells) == [hdr |-> FALSE, cells |-> cells]

\* a file object: the part index of its path (0: the exact --output path),
\* whether it is closed, and the rows written to it
File(part, rows) == [part |-> part, closed |-> FALSE, content |-> rows]

IsData(row) == ~row.hdr
IsHeader(row) == row.hdr

\* the data rows of a file, and its header rows
DataRows(f) == SelectSeq(f.content, IsData)
HeaderRows(f) == SelectSeq(f.content, IsHeader)

\* f.close()
CloseFile(fs, i) == IF i = 0 THEN fs ELSE [fs EXCEPT ![i].closed = TRUE]

\* a slip: every row replaces the data rows written before it
WriteRowReplacing(fs, w, row) ==
    [fs EXCEPT ![w].content = HeaderRows(fs[w]) \o <<DataRow(row)>>]

\* a slip: the writer is never rebound, rows keep going to the first file
WriteRowToFirst(fs, w, row) == [fs EXCEPT ![1].content = Append(@, DataRow(row))]

\* writer.writerow(row) on the file the writer wraps
WriteRow(fs, w, row) == [fs EXCEPT ![w].content = Append(@, DataRow(row))]

\* a slip: rotate one row late
RotateDueLate(max_rows, rows) == max_rows > 0 /\ rows > max_rows

\* line 180
RotateDue(max_rows, rows) == max_rows > 0 /\ rows >= max_rows


-----------------------------------------------------------------------------
(* The runs the model explores: command lines and input files *)

SeqsUpTo(S, n) == UNION {[1..m -> S] : m \in 0..n}

S_gme == <<"g","m","e">>
S_GME == <<"G","M","E">>
S_moon == <<"a"," ","G","M","E","!">>
S_x == <<"x">>
S_ts == <<"1","6","0","9","4","5","9","2","0","0">>
S_nan == <<"n","a","n">>

Args(fields, dts, terms, lo, hi, max_rows) ==
    [fields |-> fields, datetime_fields |-> dts, args_contains |-> terms,
     min_utc |-> lo, max_utc |-> hi, created_field |-> K_created,
     max_rows_per_file |-> max_rows]

\* rotation: a small line alphabet, long inputs
RotArgs == {Args(<<K_id>>, {}, terms, Unset, Unset, n) :
                terms \in {<<>>, <<S_GME>>}, n \in (-1)..MaxRowsPerFile}
RotLines == {Blank, Bad,
             Json(Obj(<< <<K_id, Num(0, 1)>>, <<K_body, Str(S_moon)>> >>)),
             Json(Obj(<< <<K_id, Num(0, 2)>> >>))}

\* filtering: every kind of body, title and timestamp, short inputs
FilterArgs == {Args(<<K_id>>, {}, terms, lo, hi, 0) :
                terms \in {<<>>, <<S_GME>>, <<S_x, S_gme>>},
                lo \in {Unset, Bound(1609459, 200), Bound(1609459, 201)},
                hi \in {Unset, Bound(1609459, 200)}}
Bodies == {<<>>, << <<K_body, Null>> >>, << <<K_body, Str(S_moon)>> >>,
           << <<K_body, Str(S_x)>> >>, << <<K_body, Num(0, 5)>> >>,
           << <<K_body, Num(0, 0)>> >>, << <<K_body, Arr(<<>>)>> >>,
           << <<K_body, Arr(<<Str(S_gme)>>)>> >>}
Titles == {<<>>, << <<K_title, Null>> >>, << <<K_title, Str(S_gme)>> >>,
           << <<K_title, Num(0, 5)>> >>}
Stamps == {<<>>, << <<K_created, Null>> >>, << <<K_created, Num(1609459, 200)>> >>,
           << <<K_created, Num(1609459, 199)>> >>, << <<K_created, Num(1609459, 201)>> >>,
           << <<K_created, Str(S_ts)>> >>, << <<K_created, Str(S_x)>> >>,
           << <<K_created, Str(S_nan)>> >>, << <<K_created, NaN>> >>,
           << <<K_created, Bool(TRUE)>> >>, << <<K_created, Arr(<<>>)>> >>}
FilterLines ==
    {Blank, Bad, Json(Num(0, 42)), Json(Null), Json(Str(S_gme)), Json(Arr(<<>>))}
    \cup {Json(Obj(b \o ti \o << <<K_created, Num(1609459, 200)>> >>)) :
            b \in Bodies, ti \in Titles}
    \cup {Json(Obj(<< <<K_body, Str(S_moon)>> >> \o st)) : st \in Stamps}

\* encoding: every kind of value in one field, short inputs
EncArgs == {Args(fields, dts, <<>>, Unset, Unset, 0) :
                fields \in {<<K_v>>, <<K_id, K_v>>, <<K_v, K_id, K_v>>},
                dts \in {{}, {K_v}}}
EncValues == {Null, Bool(TRUE), Bool(FALSE), NaN,
              Num(0, 0), Num(1609459, 200), Num(1609459200, 0), Num(1609459200, 999),
              Num(10000000, 0), Num(10000000, 1),
              Str(<<>>), Str(S_x), Str(S_ts), Str(S_nan),
              Arr(<<>>), Arr(<<Num(0, 1), Num(0, 2)>>), Arr(<<Bool(TRUE), Null, Str(S_x)>>),
              Obj(<<>>), Obj(<< <<S_x, Str(S_gme)>> >>)}
EncLines == {Json(Obj(<< <<K_id, Num(0, 7)>> >>))}
            \cup {Json(Obj(<< <<K_id, Num(0, 7)>>, <<K_v, v>> >>)) : v \in EncValues}

Scenarios ==
    (RotArgs \X SeqsUpTo(RotLines, MaxLines))
    \cup (FilterArgs \X SeqsUpTo(FilterLines, MaxRichLines))
    \cup (EncArgs \X SeqsUpTo(EncLines, MaxRichLines))

-----------------------------------------------------------------------------
(* main() *)

Init ==
    /\ \E sc \in Scenarios : cfg = sc[1] /\ input = sc[2]
    /\ pc = "make_writer"
    /\ fin = "unopened"
    /\ files = <<>>
    /\ out_file = 0
    /\ writer = 0
    /\ rows_in_current = 0
    /\ part_idx = 0
    /\ total = 0
    /\ kept = 0
    /\ outcome = "none"
    /\ err = "none"

\* an exception leaves the try block: the with statement closes the input stream
\* if it is open, the finally clause closes out_file (lines 144, 185-189)
Abort(kind, fs) ==
    /\ fin' = IF fin = "open" THEN "closed" ELSE fin
    /\ files' = CloseFile(fs, out_file)
    /\ err' = kind
    /\ pc' = "failed"

\* line 136: make_writer(None if args.max_rows_per_file <= 0 else 1), before the try
MakeFirstWriter ==
    /\ pc = "make_writer"
    /\ LET idx == IF cfg.max_rows_per_file <= 0 THEN 0 ELSE 1 IN
       \/ \* open() raises (line 131)
          /\ pc' = "failed" /\ err' = "io"
          /\ UNCHANGED <<files, out_file, writer, rows_in_current, part_idx>>
       \/ \* w.writerow(fields) raises (line 133): f is bound to nothing else
          /\ files' = Append(files, File(idx, <<>>))
          /\ pc' = "failed" /\ err' = "io"
          /\ UNCHANGED <<out_file, writer, rows_in_current, part_idx>>
       \/ \* lines 131-138
          /\ files' = Append(files, File(idx, <<HeaderRow(cfg.fields)>>))
          /\ out_file' = Len(files) + 1
          /\ writer' = Len(files) + 1
          /\ rows_in_current' = 0
          /\ part_idx' = IF cfg.max_rows_per_file > 0 THEN 1 ELSE 0
          /\ pc' = "open_input" /\ err' = err
    /\ UNCHANGED <<cfg, input, fin, total, kept, outcome>>

\* line 144: open_any(inp)
OpenInput ==
    /\ pc = "open_input"
    /\ \/ /\ fin' = "open" /\ pc' = "read"
          /\ UNCHANGED <<files, err>>
       \/ Abort("io", files)
    /\ UNCHANGED <<cfg, input, out_file, writer, rows_in_current, part_idx,
                   total, kept, outcome>>

\* line 145-146: the for statement fetches the next line, or ends the loop
ReadLine ==
    /\ pc = "read"
    /\ \/ /\ total < Len(input)
          /\ total' = total + 1
          /\ pc' = "process"
          /\ UNCHANGED <<fin, files, err>>
       \/ \* EOF: lines 185-191
          /\ total = Len(input)
          /\ fin' = "closed"
          /\ files' = CloseFile(files, out_file)
          /\ pc' = "done"
          /\ UNCHANGED <<total, err>>
       \/ \* the read raises (a decode error of a compressed stream, an I/O error)
          /\ Abort("io", files)
          /\ UNCHANGED total
    /\ UNCHANGED <<cfg, input, out_file, writer, rows_in_current, part_idx,
                   kept, outcome>>

\* lines 147-180: one pass of the loop body on the line just read
ProcessLine ==
    /\ pc = "process"
    /\ LET res == LineOutcome(input[total]) IN
       \/ \* continue (lines 148, 153, 159, 168, 170, 172)
          /\ res \in {"blank", "bad", "rejected"}
          /\ outcome' = res
          /\ pc' = "read"
          /\ UNCHANGED <<fin, files, err, kept, rows_in_current>>
       \/ \* an uncaught AttributeError or TypeError
          /\ res = "crash"
          /\ outcome' = "crash"
          /\ Abort("content", files)
          /\ UNCHANGED <<kept, rows_in_current>>
       \/ \* lines 175-180
          /\ res = "keep"
          /\ files' = WriteRow(files, writer,
                               EncodeRow(cfg.fields, input[total].v, cfg.datetime_fields))
          /\ outcome' = "kept"
          /\ kept' = kept + 1
          /\ rows_in_current' = rows_in_current + 1
          /\ pc' = IF RotateDue(cfg.max_rows_per_file, rows_in_current + 1)
                   THEN "rotate_close" ELSE "read"
          /\ UNCHANGED <<fin, err>>
       \/ \* writer.writerow raises (line 86)
          /\ res = "keep"
          /\ outcome' = "io"
          /\ Abort("io", files)
          /\ UNCHANGED <<kept, rows_in_current>>
    /\ UNCHANGED <<cfg, input, out_file, writer, part_idx, total>>

\* a slip: the part index is not advanced
RotateCloseSamePart ==
    /\ pc = "rotate_close"
    /\ files' = CloseFile(files, out_file)
    /\ pc' = "rotate_open"
    /\ UNCHANGED <<cfg, input, fin, out_file, writer, rows_in_current, part_idx,
                   total, kept, outcome, err>>

\* lines 181-182
RotateClose ==
    /\ pc = "rotate_close"
    /\ files' = CloseFile(files, out_file)
    /\ part_idx' = part_idx + 1
    /\ pc' = "rotate_open"
    /\ UNCHANGED <<cfg, input, fin, out_file, writer, rows_in_current, total, kept,
                   outcome, err>>

\* lines 183-184: make_writer(part_idx)
RotateOpen ==
    /\ pc = "rotate_open"
    /\ \/ \* open() raises (line 131)
          /\ Abort("io", files)
          /\ UNCHANGED <<out_file, writer, rows_in_current>>
       \/ \* w.writerow(fields) raises (line 133): out_file is still the old file
          /\ Abort("io", Append(files, File(part_idx, <<>>)))
          /\ UNCHANGED <<out_file, writer, rows_in_current>>
       \/ /\ files' = Append(files, File(part_idx, <<HeaderRow(cfg.fields)>>))
          /\ out_file' = Len(files) + 1
          /\ writer' = Len(files) + 1
          /\ rows_in_current' = 0
          /\ pc' = "read"
          /\ UNCHANGED <<fin, err>>
    /\ UNCHANGED <<cfg, input, part_idx, total, kept, outcome>>

Next ==
    \/ MakeFirstWriter
    \/ OpenInput
    \/ ReadLine
    \/ ProcessLine
    \/ RotateClose
    \/ RotateOpen

Spec == Init /\ [][Next]_vars

-----------------------------------------------------------------------------
(* What the properties below speak of *)

Threshold == cfg.max_rows_per_file
Terminal == pc \in {"done", "failed"}

NoFilters == Len(cfg.args_contains) = 0 /\ ~cfg.min_utc.set /\ ~cfg.max_utc.set

\* the line read last has been through the loop body (kept, dropped, or it ended
\* the run), and it holds a JSON object
LastLineIsObject ==
    /\ total > 0 /\ pc # "process"
    /\ input[total].kind = "json" /\ input[total].v.t = "obj"

\* how many of the first n input lines end the loop body in one of the given ways
CountLines(n, ways) == Cardinality({i \in 1..n : LineOutcome(input[i]) \in ways})

\* the lines that have been through the whole loop body
Settled == IF pc = "process" \/ outcome \in {"crash", "io"} THEN total - 1 ELSE total

RECURSIVE RowsOfKept(_)
\* the encoded rows of the kept records among the first n input lines, in input order
RowsOfKept(n) ==
    IF n = 0 THEN <<>>
    ELSE IF LineOutcome(input[n]) = "keep"
         THEN Append(RowsOfKept(n - 1),
                     EncodeRow(cfg.fields, input[n].v, cfg.datetime_fields))
         ELSE RowsOfKept(n - 1)

RECURSIVE RowsOfParts(_)
\* the data rows of the first n files, concatenated in opening order
RowsOfParts(n) ==
    IF n = 0 THEN <<>>
    ELSE RowsOfParts(n - 1)
         \o [j \in 1..Len(DataRows(files[n])) |-> DataRows(files[n])[j].cells]

NumData(i) == Len(DataRows(files[i]))
OpenFiles == {i \in 1..Len(files) : ~files[i].closed}

\* the files a rotation has closed: those of a lower part index than the current one
RotatedOut == {i \in 1..Len(files) : Threshold > 0 /\ files[i].part < part_idx}

-----------------------------------------------------------------------------
(* The properties *)

\* the text a body or title contributes to the containment test, as stated
TextOf(v) == IF v.t = "str" THEN v.s ELSE <<>>

ContainmentPasses(obj) ==
    \/ Len(cfg.args_contains) = 0
    \/ \E i \in 1..Len(cfg.args_contains) :
          IsSubstr(Lower(cfg.args_contains[i]),
                   Lower(TextOf(Get(obj, K_body)) \o <<" ">> \o TextOf(Get(obj, K_title))))

\* a >= b on numbers; NaN is >= nothing
NumGeq(a, b) == ~a.nan /\ ~b.nan /\ (a.k > b.k \/ (a.k = b.k /\ a.r >= b.r))

BoundsPass(obj) ==
    \/ ~cfg.min_utc.set /\ ~cfg.max_utc.set
    \/ LET ts == ToFloat(Get(obj, cfg.created_field)) IN
       /\ ts.ok
       /\ cfg.min_utc.set => NumGeq(ts, cfg.min_utc)
       /\ cfg.max_utc.set => NumGeq(cfg.max_utc, ts)

(* C1: a parsed object is kept if and only if every configured filter dimension
   passes: some term is a substring of lower(body + " " + title), missing or null
   body / title being empty, and the timestamp is numeric and within the
   inclusive bounds. *)
C1_KeptIffEveryDimensionPasses ==
    (LastLineIsObject /\ outcome \in {"kept", "rejected", "crash"})
        => (outcome = "kept" <=> (ContainmentPasses(input[total].v)
                                  /\ BoundsPass(input[total].v)))

(* C2: with no filter configured the run reaches its end with kept equal to the
   number of non-blank JSON-parseable lines and total equal to the number of
   lines, whatever JSON value a line holds. *)
C2_NoFilterKeepsEveryParseableLine ==
    (NoFilters /\ Terminal /\ err # "io")
        => /\ pc = "done"
           /\ kept = Cardinality({i \in 1..Len(input) : input[i].kind = "json"})
           /\ total = Len(input)

(* C3: after any prefix of the input, total >= kept and total is the number of
   blank lines plus parse failures plus filter rejections plus kept: every line
   read falls in exactly one of the four classes. *)
C3_TotalIsSumOfClasses ==
    (pc # "process" /\ err # "io")
        => /\ total >= kept
           /\ total = CountLines(total, {"blank"}) + CountLines(total, {"bad"})
                      + CountLines(total, {"rejected"}) + kept

CeilDiv(a, b) == (a + b - 1) \div b

(* C4, as claimed: with threshold T > 0 and K >= 1 kept rows at EOF there are
   ceil(K / T) parts, all but the last of T data rows, the last of the remaining
   K - T * (ceil(K / T) - 1) rows, each with one header row. *)
C4_CeilingParts ==
    (pc = "done" /\ Threshold > 0 /\ kept >= 1)
        => /\ Len(files) = CeilDiv(kept, Threshold)
           /\ \A i \in 1..Len(files) :
                /\ Len(HeaderRows(files[i])) = 1
                /\ NumData(i) = IF i < Len(files) THEN Threshold
                                ELSE kept - Threshold * (CeilDiv(kept, Threshold) - 1)

(* C4, amended: with threshold T > 0 and K >= 1 kept rows at EOF there are
   floor(K / T) + 1 parts, all but the last of T data rows, the last of the
   remaining K mod T rows (none when T divides K), each with one header row. *)
C4_FloorPlusOneParts ==
    (pc = "done" /\ Threshold > 0 /\ kept >= 1)
        => /\ Len(files) = (kept \div Threshold) + 1
           /\ \A i \in 1..Len(files) :
                /\ Len(HeaderRows(files[i])) = 1
                /\ NumData(i) = IF i < Len(files) THEN Threshold
                                ELSE kept % Threshold

C4_Witness ==
    pc = "done" /\ Threshold = 2 /\ kept = 4 /\ Len(files) = 3 /\ NumData(3) = 0

(* C5: no record content is fatal: a line is dropped or written, and a run ends
   early only on an environment or I/O error. *)
C5_NoRecordContentIsFatal ==
    /\ outcome # "crash"
    /\ pc = "failed" => err = "io"

(* C6: on every exit path every output file that was opened is closed, and the
   input stream is closed if it was opened. *)
C6_AllClosedOnExit ==
    Terminal => (OpenFiles = {} /\ fin # "open")

CellAsClaimed(f, obj, datetime_fields) ==
    LET val == Get(obj, f) IN
    IF val.t = "null" THEN <<>>
    ELSE IF val.t \in {"arr", "obj"} THEN JsonDumps(val)
    ELSE IF f \in datetime_fields /\ IsoCell(val).ok THEN IsoCell(val).s
    ELSE PyStr(val)

(* C7: the row has one cell per field, in order: empty for a missing or null
   value; the JSON serialisation for an array or object, datetime field or not;
   the timestamp rendering for a scalar of a datetime field, or its plain string
   form if the conversion fails; the plain string form for any other scalar. *)
C7_CellPerField ==
    (LastLineIsObject /\ outcome = "kept")
        => LET row == RowsOfParts(Len(files))[kept] IN
           /\ Len(row) = Len(cfg.fields)
           /\ \A i \in 1..Len(row) :
                row[i] = CellAsClaimed(cfg.fields[i], input[total].v, cfg.datetime_fields)

(* C8: at every point the data rows of all files, concatenated in part order,
   are exactly the encoded rows of the records kept so far, in input order, each
   once; a line is read only when the rows of every earlier kept line are in
   the files, and reading it writes nothing. *)
C8_RowsInInputOrder ==
    /\ [](/\ RowsOfParts(Len(files)) = RowsOfKept(Settled)
          /\ Len(RowsOfParts(Len(files))) = kept)
    /\ [][total' # total =>
            /\ total' = total + 1
            /\ RowsOfParts(Len(files)) = RowsOfKept(total)
            /\ UNCHANGED files
         ]_vars

C8_Witness ==
    /\ Threshold = 2 /\ Len(files) = 2 /\ NumData(2) = 1 /\ kept = 3
    /\ \E i \in 1..total : LineOutcome(input[i]) # "keep"
    /\ \E i, j \in 1..3 : RowsOfParts(2)[i] # RowsOfParts(2)[j]

(* C9: with threshold T > 0 the files have part indices 1, 2, 3, ..., a rotation
   happens exactly when the active file's data rows reach T, no file holds more
   than T data rows, a rotated-out file holds exactly T, and a file receives the
   header once, before any data row. With threshold <= 0 there is one file, at
   the exact output path, with the header and all kept rows, and no part index. *)
C9_RotationStep ==
    /\ \A i \in 1..Len(files) :
          /\ Len(HeaderRows(files[i])) <= 1
          /\ Len(files[i].content) > 0
                => files[i].content[1] = HeaderRow(cfg.fields)
    /\ writer > 0 => rows_in_current = NumData(writer)
    /\ Threshold > 0 =>
          /\ \A i \in 1..Len(files) : files[i].part = i /\ NumData(i) <= Threshold
          /\ \A i \in RotatedOut : NumData(i) = Threshold
          /\ pc \in {"read", "process"} => rows_in_current < Threshold
          /\ pc \in {"rotate_close", "rotate_open"} => rows_in_current = Threshold
          /\ part_idx \in {0, Len(files), Len(files) + 1}
    /\ Threshold <= 0 =>
          /\ Len(files) <= 1
          /\ part_idx = 0
          /\ pc \notin {"rotate_close", "rotate_open"}
          /\ \A i \in 1..Len(files) : files[i].part = 0
          /\ writer > 0 => NumData(writer) = kept

C9_Witness ==
    /\ Threshold = 2 /\ Len(files) = 3 /\ pc = "read"
    /\ NumData(1) = 2 /\ NumData(2) = 2 /\ NumData(3) = 1

(* C10: at most one output file is open at any time; a rotation closes the
   active file before it opens the next; a closed file is never written again;
   when a write or open failure aborts the run every rotated-out file is closed
   and holds its T rows. *)
C10_OneOpenSink ==
    /\ [](Cardinality(OpenFiles) <= 1)
    /\ [](pc = "failed" => \A i \in RotatedOut :
                              files[i].closed /\ NumData(i) = Threshold)
    /\ [][/\ \A i \in 1..Len(files) : files[i].closed => files'[i] = files[i]
          /\ Len(files') > Len(files) => \A i \in 1..Len(files) : files[i].closed
         ]_vars

C10_Witness ==
    pc = "failed" /\ outcome = "io" /\ Cardinality(RotatedOut) = 2

=============================================================================
